---- MODULE Spec2Model ----
(***************************************************************************)
(* Galois worklists (ChunkedAdaptor over LevelStealingAlt / LIFO_SB) and   *)
(* the Louvain clustering engine, as state machines.                       *)
(*                                                                         *)
(* Worklist part: every action is one access to shared memory (the head    *)
(* word of a LIFO_SB, a chunk's next field while it is linked) together    *)
(* with the thread-private computation that follows it up to the next      *)
(* shared access.  data.get() (cur), a chunk's data while it is a current  *)
(* chunk, and the locals of a call are private to the calling worker.      *)
(***************************************************************************)
EXTENDS Integers, Sequences, FiniteSets, TLC

(* ------------------------------ bounds --------------------------------- *)
\* largest number of localities (PerLevel slots) a machine may have
NumLevels == 2
\* Chunk capacity (template parameter chunksize, 64 by default)
ChunkSize == 2
\* number of item ids: a single worker pushes up to this many items
MaxPush == 6
\* number of items two interleaved workers push
ConcPush == 4
\* number of items pushed in the runs with a polling worker
LivePush == 4
\* longest range handed to a bulk push / pushi
MaxRange == 3

\* the null pointer
NULL == 0

\* the worker threads (PerCPU slots): two
Workers == 0 .. 1
Levels == 0 .. (NumLevels - 1)
\* chunk addresses; every mkChunk is followed by the push of an item, so
\* MaxPush addresses are always enough
Chunks == 1 .. MaxPush
Items == 1 .. MaxPush

MinOf(S) == CHOOSE x \in S : \A y \in S : x <= y

VARIABLES
  nlev,      \* PerLevel::size(): the number of localities of this machine
  head,      \* LIFO_SB::head pointer value, per level
  locked,    \* LIFO_SB::head lock bit, per level
  nxt,       \* ChunkHeader::next, per chunk
  items,     \* Chunk::data[0..num-1], per chunk
  live,      \* chunks allocated and not deallocated
  freed,     \* per worker: chunks it deallocated (its free list)
  owner,     \* per chunk: the worker whose mkChunk allocated it last
  cur,       \* ChunkedAdaptor::data.get(), per worker
  pc,        \* per worker: where it is inside a call
  op,        \* per worker: the ChunkedAdaptor method it is inside ("none": idle)
  arg,       \* per worker: the items of the call not yet copied into a chunk
  val,       \* per worker: the chunk LIFO_SB::push is publishing
  oldhead,   \* per worker: LIFO_SB::push's oldhead
  sid,       \* per worker: LevelStealingAlt::pop's id
  si,        \* per worker: LevelStealingAlt::pop's i
  route,     \* per worker: the worklist method (push / pushi) it is inside
  nitems,    \* number of items handed to push calls so far (items are 1..nitems)
  popcount   \* per item: how many successful pops returned it

wlvars == <<nlev, head, locked, nxt, items, live, freed, owner, cur, pc, op, arg, val,
            oldhead, sid, si, route, nitems, popcount>>

(* --------------------------- Chunk (lines 33-64) ----------------------- *)
ChunkFull(d) == Len(d) = ChunkSize
\* (variant: a chunk with one item left counts as empty)
ChunkNearlyEmpty(d) == Len(d) <= 1
ChunkEmpty(d) == Len(d) = 0
\* bool push(T val): the data after a successful push
ChunkPush(d, x) == Append(d, x)
\* pop(): data[--num]
\* (variant: the oldest item, data[0], is returned instead of the newest)
ChunkPopOldest(d) == d[1]
ChunkPopItem(d) == d[Len(d)]
\* (variant: num is not decremented, the item stays in the chunk)
ChunkPopKeep(d) == d
ChunkPopRest(d) == SubSeq(d, 1, Len(d) - 1)
\* Iter push(Iter b, Iter e): how many items are copied
ChunkFillCount(d, r) ==
  IF Len(r) < ChunkSize - Len(d) THEN Len(r) ELSE ChunkSize - Len(d)
ChunkFillData(d, r) == d \o SubSeq(r, 1, ChunkFillCount(d, r))
\* (variant: the returned iterator is one past the first uncopied item)
ChunkFillRestSkip(d, r) == SubSeq(r, ChunkFillCount(d, r) + 2, Len(r))
ChunkFillRest(d, r) == SubSeq(r, ChunkFillCount(d, r) + 1, Len(r))

(* ------------------------ PtrLock, PerLevel, heap ---------------------- *)
\* PtrLock::CAS succeeds only on an unlocked word holding the expected pointer
\* (variant: the CAS compares the pointer only, not the lock bit)
CASIgnoresLock(s, old) == head[s] = old
CASok(s, old) == head[s] = old /\ ~locked[s]
\* PtrLock::try_lock / lock can take the lock only when it is free
LockFree(s) == ~locked[s]
\* PerLevel::myEffectiveID
EffectiveID(w) == w % nlev
\* FixedSizeAllocator::allocate: a chunk of the caller's free list, or a new one
Fresh == Chunks \ (live \cup UNION {freed[w] : w \in Workers})
MkChoices(w) == freed[w] \cup (IF Fresh = {} THEN {} ELSE {MinOf(Fresh)})

(* ------------------------------ Init ----------------------------------- *)
WLInit ==
  /\ nlev \in 1 .. NumLevels
  /\ head = [s \in Levels |-> NULL]
  /\ locked = [s \in Levels |-> FALSE]
  /\ nxt = [c \in Chunks |-> NULL]
  /\ items = [c \in Chunks |-> <<>>]
  /\ live = {}
  /\ freed = [w \in Workers |-> {}]
  /\ owner = [c \in Chunks |-> 0]
  /\ cur = [w \in Workers |-> NULL]
  /\ pc = [w \in Workers |-> "idle"]
  /\ op = [w \in Workers |-> "none"]
  /\ arg = [w \in Workers |-> <<>>]
  /\ val = [w \in Workers |-> NULL]
  /\ oldhead = [w \in Workers |-> NULL]
  /\ sid = [w \in Workers |-> 0]
  /\ si = [w \in Workers |-> 0]
  /\ route = [w \in Workers |-> "none"]
  /\ nitems = 0
  /\ popcount = [x \in Items |-> 0]

(* ---------------------- thread-private helpers ------------------------- *)
\* the locals of a call are dead once it returns
Return(w) ==
  /\ pc' = [pc EXCEPT ![w] = "idle"]
  /\ op' = [op EXCEPT ![w] = "none"]
  /\ route' = [route EXCEPT ![w] = "none"]
  /\ arg' = [arg EXCEPT ![w] = <<>>]
  /\ val' = [val EXCEPT ![w] = NULL]
  /\ oldhead' = [oldhead EXCEPT ![w] = NULL]
  /\ sid' = [sid EXCEPT ![w] = 0]
  /\ si' = [si EXCEPT ![w] = 0]

\* mkChunk (lines 209-211): construct chunk c holding data d
MkChunk(w, c, d) ==
  /\ live' = live \cup {c}
  /\ freed' = [freed EXCEPT ![w] = @ \ {c}]
  /\ owner' = [owner EXCEPT ![c] = w]
  /\ items' = [items EXCEPT ![c] = d]

\* method name enters LIFO_SB::push(c) through worklist method m, rest being
\* the items left
StartPublish(w, name, c, m, rest) ==
  /\ pc' = [pc EXCEPT ![w] = "push_read"]
  /\ op' = [op EXCEPT ![w] = name]
  /\ val' = [val EXCEPT ![w] = c]
  /\ arg' = [arg EXCEPT ![w] = rest]
  /\ route' = [route EXCEPT ![w] = m]
  /\ UNCHANGED <<oldhead, sid, si>>

(* ------------------- ChunkedAdaptor::push (231-244) -------------------- *)
\* push(value_type); pushi(value_type) (246-248) is the same code
AdaptorPush(w, name) ==
  /\ pc[w] = "idle"
  /\ nitems < MaxPush
  /\ nitems' = nitems + 1
  /\ LET x == nitems + 1
         n == cur[w]
     IN  IF n # NULL /\ ~ChunkFull(items[n])
         THEN \* simple case, space in current chunk
              /\ items' = [items EXCEPT ![n] = ChunkPush(@, x)]
              /\ UNCHANGED <<head, locked, nxt, live, freed, owner, cur, pc, op,
                             arg, val, oldhead, sid, si, route, popcount>>
         ELSE IF n # NULL
         THEN \* full chunk: worklist.push(n)
              /\ StartPublish(w, name, n, "push", <<x>>)
              /\ UNCHANGED <<head, locked, nxt, items, live, freed, owner, cur, popcount>>
         ELSE \* no chunk: n = mkChunk(); n->push(val)
              /\ \E c \in MkChoices(w) :
                   /\ MkChunk(w, c, ChunkPush(<<>>, x))
                   /\ cur' = [cur EXCEPT ![w] = c]
              /\ UNCHANGED <<head, locked, nxt, pc, op, arg, val, oldhead, sid,
                             si, route, popcount>>

CallPush(w) == AdaptorPush(w, "push")
CallPushi(w) == AdaptorPush(w, "pushi")

(* --------------- ChunkedAdaptor::push(Iter, Iter) (250-263) ------------ *)
\* one turn of the while loop with n the current chunk (NULL: mkChunk first)
RangeTurn(w, n, r) ==
  \E c \in (IF n = NULL THEN MkChoices(w) ELSE {n}) :
    LET d == IF n = NULL THEN <<>> ELSE items[n]
        rest == ChunkFillRest(d, r)
    IN  /\ IF n = NULL
           THEN MkChunk(w, c, ChunkFillData(d, r))
           ELSE /\ items' = [items EXCEPT ![c] = ChunkFillData(d, r)]
                /\ UNCHANGED <<live, freed, owner>>
        /\ cur' = [cur EXCEPT ![w] = c]
        /\ IF rest # <<>>
           THEN StartPublish(w, "pushr", c, "push", rest)
           ELSE Return(w)

CallPushRange(w, len) ==
  /\ pc[w] = "idle"
  /\ nitems + len <= MaxPush
  /\ nitems' = nitems + len
  /\ RangeTurn(w, cur[w], [i \in 1 .. len |-> nitems + i])
  /\ UNCHANGED <<head, locked, nxt, popcount>>

(* --------------- ChunkedAdaptor::pushi(Iter, Iter) (265-272) ----------- *)
\* one turn of the while loop: n is a local of the call, not data.get()
RangeiTurn(w, r) ==
  IF r = <<>>
  THEN Return(w) /\ UNCHANGED <<items, live, freed, owner>>
  ELSE \E c \in MkChoices(w) :
         /\ MkChunk(w, c, ChunkFillData(<<>>, r))
         /\ StartPublish(w, "pushir", c, "pushi", ChunkFillRest(<<>>, r))

CallPushiRange(w, len) ==
  /\ pc[w] = "idle"
  /\ nitems + len <= MaxPush
  /\ nitems' = nitems + len
  /\ RangeiTurn(w, [i \in 1 .. len |-> nitems + i])
  /\ UNCHANGED <<head, locked, nxt, cur, popcount>>

(* ------------------------ LIFO_SB::push (75-81) ------------------------ *)
\* oldhead = head.getValue(); val->next = oldhead
LifoPushRead(w) ==
  /\ pc[w] = "push_read"
  /\ oldhead' = [oldhead EXCEPT ![w] = head[EffectiveID(w)]]
  /\ nxt' = [nxt EXCEPT ![val[w]] = head[EffectiveID(w)]]
  /\ pc' = [pc EXCEPT ![w] = "push_cas"]
  /\ UNCHANGED <<head, locked, items, live, freed, owner, cur, op, arg, val, sid, si,
                 route, nitems, popcount>>

\* what the adaptor does once worklist.push / pushi has returned
Published(w) ==
  CASE op[w] \in {"push", "pushi"} ->
         \* lines 240-243: n = mkChunk(); n->push(val)
         /\ \E c \in MkChoices(w) :
              /\ MkChunk(w, c, ChunkPush(<<>>, arg[w][1]))
              /\ cur' = [cur EXCEPT ![w] = c]
         /\ Return(w)
    [] op[w] = "pushr" ->
         \* line 259: n = 0; then the loop again
         RangeTurn(w, NULL, arg[w])
    [] op[w] = "pushir" ->
         RangeiTurn(w, arg[w]) /\ UNCHANGED cur

\* while (!head.CAS(oldhead, val))
LifoPushCAS(w) ==
  /\ pc[w] = "push_cas"
  /\ IF CASok(EffectiveID(w), oldhead[w])
     THEN /\ head' = [head EXCEPT ![EffectiveID(w)] = val[w]]
          /\ Published(w)
          /\ UNCHANGED <<locked, nxt, nitems, popcount>>
     ELSE /\ pc' = [pc EXCEPT ![w] = "push_read"]
          /\ UNCHANGED <<head, locked, nxt, items, live, freed, owner, cur, op, arg,
                         val, oldhead, sid, si, route, nitems, popcount>>

(* ------------------- ChunkedAdaptor::pop (274-290) --------------------- *)
\* lines 284-289: n = worklist.pop() returned chunk C (NULL: nothing)
Fetched(w, C) ==
  /\ cur' = [cur EXCEPT ![w] = C]
  /\ IF C # NULL /\ ~ChunkEmpty(items[C])
     THEN /\ popcount' = [popcount EXCEPT ![ChunkPopItem(items[C])] = @ + 1]
          /\ items' = [items EXCEPT ![C] = ChunkPopRest(@)]
     ELSE UNCHANGED <<popcount, items>>
  /\ Return(w)

\* lines 275-283: the current chunk, or delChunk and go to the worklist
CallPop(w) ==
  /\ pc[w] = "idle"
  /\ LET n == cur[w]
     IN  IF n # NULL /\ ~ChunkEmpty(items[n])
         THEN \* simple case, things in current chunk
              /\ popcount' = [popcount EXCEPT ![ChunkPopItem(items[n])] = @ + 1]
              /\ items' = [items EXCEPT ![n] = ChunkPopRest(@)]
              /\ UNCHANGED <<live, freed, owner, pc, op>>
         ELSE \* empty chunk, trash it (delChunk, 213-216); get a new chunk
              /\ IF n # NULL
                 THEN /\ live' = live \ {n}
                      /\ freed' = [freed EXCEPT ![w] = @ \cup {n}]
                      /\ UNCHANGED owner
                 ELSE UNCHANGED <<live, freed, owner>>
              /\ pc' = [pc EXCEPT ![w] = "pop_fast"]
              /\ op' = [op EXCEPT ![w] = "pop"]
              /\ UNCHANGED <<popcount, items>>
  /\ UNCHANGED <<head, locked, nxt, cur, arg, val, oldhead, sid, si, route, nitems>>

(* ------------- LevelStealingAlt::pop (151-174), steal loop ------------- *)
\* lines 161-162: ++id; id %= local.size()
\* (variant: id is not incremented)
SameVictim(id) == id % nlev
NextVictim(id) == (id + 1) % nlev

\* me.pop() returned 0: lines 159-163, the first turn of the for loop
StartSteal(w) ==
  /\ sid' = [sid EXCEPT ![w] = NextVictim(EffectiveID(w))]
  /\ si' = [si EXCEPT ![w] = 0]
  /\ pc' = [pc EXCEPT ![w] = "steal_fast"]
  /\ UNCHANGED <<items, live, freed, owner, cur, op, arg, val, oldhead, route,
                 popcount>>

\* steal returned 0: the next turn of the for loop, or return ret (= 0)
\* (variant: the loop is left at the first steal that returns 0)
StealGivesUp(w) == Fetched(w, NULL) /\ UNCHANGED <<live, freed, owner>>
StealFailed(w) ==
  IF si[w] + 1 < nlev
  THEN /\ sid' = [sid EXCEPT ![w] = NextVictim(@)]
       /\ si' = [si EXCEPT ![w] = @ + 1]
       /\ pc' = [pc EXCEPT ![w] = "steal_fast"]
       /\ UNCHANGED <<items, live, freed, owner, cur, op, arg, val, oldhead,
                      route, popcount>>
  ELSE Fetched(w, NULL) /\ UNCHANGED <<live, freed, owner>>

(* ------------------------ LIFO_SB::pop (87-101) ------------------------ *)
\* line 98: the argument of head.unlock_and_set
\* (variant: the head is left on the chunk that is returned)
PopKeepHead(C) == C
PopNewHead(C) == nxt[C]
\* line 89: if (empty()) return 0
PopFast(w) ==
  /\ pc[w] = "pop_fast"
  /\ IF head[EffectiveID(w)] = NULL
     THEN StartSteal(w)
     ELSE /\ pc' = [pc EXCEPT ![w] = "pop_lock"]
          /\ UNCHANGED <<items, live, freed, owner, cur, op, arg, val, oldhead,
                         sid, si, route, popcount>>
  /\ UNCHANGED <<head, locked, nxt, nitems>>

\* line 92: head.lock()
PopLock(w) ==
  /\ pc[w] = "pop_lock"
  /\ LockFree(EffectiveID(w))
  /\ locked' = [locked EXCEPT ![EffectiveID(w)] = TRUE]
  /\ pc' = [pc EXCEPT ![w] = "pop_take"]
  /\ UNCHANGED <<head, nxt, items, live, freed, owner, cur, op, arg, val, oldhead, sid,
                 si, route, nitems, popcount>>

\* lines 93-100, under the lock
PopTake(w) ==
  /\ pc[w] = "pop_take"
  /\ LET s == EffectiveID(w)
         C == head[s]
     IN  /\ locked' = [locked EXCEPT ![s] = FALSE]
         /\ IF C = NULL
            THEN \* head.unlock(); return 0
                 /\ StartSteal(w)
                 /\ UNCHANGED <<head, nxt>>
            ELSE \* head.unlock_and_set(C->next); C->next = 0; return C
                 /\ head' = [head EXCEPT ![s] = PopNewHead(C)]
                 /\ nxt' = [nxt EXCEPT ![C] = NULL]
                 /\ Fetched(w, C)
                 /\ UNCHANGED <<live, freed, owner>>
  /\ UNCHANGED nitems

(* ----------------------- LIFO_SB::steal (104-119) ---------------------- *)
\* line 116: the argument of victim.head.unlock_and_set
StealNewHead(C) == nxt[C]
\* line 106: if (victim.empty()) return 0
StealFast(w) ==
  /\ pc[w] = "steal_fast"
  /\ IF head[sid[w]] = NULL
     THEN StealFailed(w)
     ELSE /\ pc' = [pc EXCEPT ![w] = "steal_try"]
          /\ UNCHANGED <<items, live, freed, owner, cur, op, arg, val, oldhead,
                         sid, si, route, popcount>>
  /\ UNCHANGED <<head, locked, nxt, nitems>>

\* lines 109-110: if (!victim.head.try_lock()) return 0
StealTryLock(w) ==
  /\ pc[w] = "steal_try"
  /\ IF LockFree(sid[w])
     THEN /\ locked' = [locked EXCEPT ![sid[w]] = TRUE]
          /\ pc' = [pc EXCEPT ![w] = "steal_take"]
          /\ UNCHANGED <<items, live, freed, owner, cur, op, arg, val, oldhead,
                         sid, si, route, popcount>>
     ELSE StealFailed(w) /\ UNCHANGED locked
  /\ UNCHANGED <<head, nxt, nitems>>

\* lines 111-118, under the victim's lock
StealTake(w) ==
  /\ pc[w] = "steal_take"
  /\ LET v == sid[w]
         C == head[v]
     IN  /\ locked' = [locked EXCEPT ![v] = FALSE]
         /\ IF C = NULL
            THEN \* victim.head.unlock(); return 0
                 /\ StealFailed(w)
                 /\ UNCHANGED <<head, nxt>>
            ELSE \* victim.head.unlock_and_set(C->next); C->next = 0; return C
                 /\ head' = [head EXCEPT ![v] = StealNewHead(C)]
                 /\ nxt' = [nxt EXCEPT ![C] = NULL]
                 /\ Fetched(w, C)
                 /\ UNCHANGED <<live, freed, owner>>
  /\ UNCHANGED nitems

(* ------------------- what the worklist state holds --------------------- *)
\* the chunks linked from c through next, at most fuel of them
RECURSIVE ChainFrom(_, _)
ChainFrom(c, fuel) ==
  IF c = NULL \/ fuel = 0 THEN <<>> ELSE <<c>> \o ChainFrom(nxt[c], fuel - 1)

\* the chunks on the stack of level s, top first
StackChain(s) == ChainFrom(head[s], MaxPush + 1)

\* the chunks on all stacks, one stack after the other
RECURSIVE ChainsFrom(_)
ChainsFrom(s) ==
  IF s \notin Levels THEN <<>> ELSE StackChain(s) \o ChainsFrom(s + 1)
LinkedSeq == ChainsFrom(0)

\* the current chunks of the workers
RECURSIVE CursFrom(_)
CursFrom(w) ==
  IF w \notin Workers THEN <<>>
  ELSE (IF cur[w] = NULL THEN <<>> ELSE <<cur[w]>>) \o CursFrom(w + 1)
CurSeq == CursFrom(0)

\* the data of a sequence of chunks, one chunk after the other
RECURSIVE Flatten(_)
Flatten(cs) == IF cs = <<>> THEN <<>> ELSE items[Head(cs)] \o Flatten(Tail(cs))

Count(x, q) == Cardinality({i \in 1 .. Len(q) : q[i] = x})

\* how many times chunk c is linked on the stacks
LinkCount(c) == Count(c, LinkedSeq)
\* how many workers have c as their current chunk
CurCount(c) == Count(c, CurSeq)
\* how many times item x occurs in chunk c
Occurs(x, c) == Count(x, items[c])
\* the items in the chunks on the stacks and in the current chunks
ResidentItems == Flatten(LinkedSeq \o CurSeq)

\* a pushi(range) in progress holds the chunk it is about to link in a local
InFlight(c) ==
  \E w \in Workers : op[w] = "pushir" /\ pc[w] # "idle" /\ val[w] = c

\* item x was handed to a call that has not yet put it into a current chunk
\* or linked its chunk: it is not pushed yet
Pending(x) ==
  \/ \E w \in Workers : \E i \in 1 .. Len(arg[w]) : arg[w][i] = x
  \/ \E c \in Chunks : InFlight(c) /\ Occurs(x, c) > 0

PushedCount(x) == IF x <= nitems /\ ~Pending(x) THEN 1 ELSE 0

(* ====================== Louvain community detection ===================== *)
(* src/libpangolin/CMakeLists.txt.  A double is modelled by the rational    *)
(* number it approximates, or by NaN.                                       *)

MaxN == 4            \* vertices of the input graph
MaxW == 1            \* weight of an edge
MaxIter == 3         \* iterations of the engine that are followed
MaxThreads == 2      \* per-vertex bodies running at the same time

MaxOf(S) == CHOOSE x \in S : \A y \in S : y <= x

\* two triangles, the input of one of the runs, are the largest graph
TriangleEdges == {<<0, 1>>, <<0, 2>>, <<1, 2>>, <<3, 4>>, <<3, 5>>, <<4, 5>>}
LastNode ==
  MaxOf((0 .. (MaxN - 1)) \cup UNION {{e[1], e[2]} : e \in TriangleEdges})

Nodes == 0 .. LastNode
Pairs == {p \in (0 .. (MaxN - 1)) \X (0 .. (MaxN - 1)) : p[1] < p[2]}

\* (uint64_t)-1, only ever compared for equality
NoComm == -1

\* line 111: numeric_limits<uint64_t>::max() / 2 - 1, only ever assigned and
\* compared for equality
INF_VAL == -3

VARIABLES
  nnodes,               \* graph.size()
  wt,                   \* wt[n][d]: weight of the edge n - d, 0 if none
  curr_comm_ass,        \* Node::curr_comm_ass
  degree_wt,            \* Node::degree_wt
  c_info,               \* c_info[c].size, c_info[c].degree_wt
  total_edge_wt_twice,  \* 1 / constant_for_second_term
  threshold_mod, prev_mod, curr_mod, num_iter,
  phase,                \* "off", "start", "loop", "exit"
  retval,               \* what algoLouvainWithLocking returned
  e_xx, a2_x,           \* the sums of lines 360-361 as last computed
  bpc,                  \* position of the body of each vertex
  counter,              \* counter[cluster_local_map[y]] by community y
  ax, max_gain, max_index, stored_already, local_target,
  gains,                \* the gain computed for each community so far
  mmcall,               \* the last completed call of maxModularity
  start_mod             \* the modularity of the partition the iteration began with

\* runMultiPhaseLouvainAlgorithm
VARIABLES
  dpc,                  \* where the driver is: "off" when it is not followed
  min_graph_size,       \* its parameter
  phases_run,           \* how many turns of its while loop have begun
  engine_calls,         \* how many times it has called the engine
  run_prev_mod,         \* its prev_mod
  run_curr_mod          \* its curr_mod

drvvars == <<dpc, min_graph_size, phases_run, engine_calls, run_prev_mod,
             run_curr_mod>>

graphvars == <<nnodes, wt>>
enginevars == <<curr_comm_ass, degree_wt, c_info, total_edge_wt_twice,
                threshold_mod, prev_mod, curr_mod, num_iter, phase, retval,
                e_xx, a2_x, start_mod>>
bodyvars == <<bpc, counter, ax, max_gain, max_index, stored_already,
              local_target, gains>>
lvvars == <<graphvars, enginevars, bodyvars, mmcall, drvvars>>

(* ------------------------------ the graph ------------------------------ *)
Graph == 0 .. (nnodes - 1)

\* the adjacency list of n, in CSR order (ascending destination)
Neighbors(n) == {d \in Nodes : wt[n][d] > 0}

\* std::distance(graph.edge_begin(n), graph.edge_end(n))
Degree(n) == Cardinality(Neighbors(n))

RECURSIVE SumTo(_, _)
SumTo(f, k) == IF k < 0 THEN 0 ELSE f[k] + SumTo(f, k - 1)

\* the sum of f over all vertices
Sum(f) == SumTo(f, LastNode)

\* a symmetric graph without duplicate edges, given by its edge weights
MkGraph(N, w) ==
  [n \in Nodes |-> [d \in Nodes |->
     IF n < d /\ d < N THEN w[<<n, d>>]
     ELSE IF d < n /\ n < N THEN w[<<d, n>>]
     ELSE 0]]

GraphInit ==
  /\ nnodes \in 1 .. MaxN
  /\ \E w \in [Pairs -> 0 .. MaxW] :
       /\ \A p \in Pairs : p[2] >= nnodes => w[p] = 0
       /\ wt = MkGraph(nnodes, w)

(* ------------------------------- doubles ------------------------------- *)
Num(a, b) == [nan |-> FALSE, n |-> a, d |-> b]
NaN == [nan |-> TRUE, n |-> 0, d |-> 1]

\* x - y
DSub(x, y) ==
  IF x.nan \/ y.nan THEN NaN
  ELSE IF x.d = y.d THEN Num(x.n - y.n, x.d)
  ELSE Num(x.n * y.d - y.n * x.d, x.d * y.d)

\* x < y, false when either is NaN
DLess(x, y) == ~x.nan /\ ~y.nan /\ x.n * y.d < y.n * x.d

\* c_threshold: the default 0.01, and a coarse one
Thresholds == {Num(1, 100), Num(1, 4)}

\* the lower that runMultiPhaseLouvainAlgorithm passes
Lower == Num(-1, 1)

(* ------------------------------ the engine ----------------------------- *)
\* sumVertexDegreeWeight: total_weight of n
TotalWeight(n) == Sum(wt[n])

BodyIdle ==
  /\ bpc = [n \in Nodes |-> "done"]
  /\ counter = [n \in Nodes |-> <<>>]
  /\ ax = [n \in Nodes |-> 0]
  /\ max_gain = [n \in Nodes |-> 0]
  /\ max_index = [n \in Nodes |-> 0]
  /\ stored_already = [n \in Nodes |-> 0]
  /\ local_target = [n \in Nodes |-> 0]
  /\ gains = [n \in Nodes |-> <<>>]

MMNone == [n |-> NoComm]

\* lines 261-265: each vertex in its own community
OwnCommunity == [n \in Nodes |-> IF n \in Graph THEN n ELSE 0]
\* lines 175-187: sumVertexDegreeWeight
VertexWeights == [n \in Nodes |-> TotalWeight(n)]
FreshInfo ==
  [n \in Nodes |->
     [size |-> IF n \in Graph THEN 1 ELSE 0, degree_wt |-> TotalWeight(n)]]
\* lines 189-198: calConstantForSecondTerm's total_edge_weight_twice
TwiceTotal == Sum([n \in Nodes |-> TotalWeight(n)])

\* the driver is not followed
DriverOff ==
  /\ dpc = "off"
  /\ min_graph_size = 0
  /\ phases_run = 0
  /\ engine_calls = 0
  /\ run_prev_mod = Num(-1, 1)
  /\ run_curr_mod = Num(-1, 1)

\* algoLouvainWithLocking(graph, clusters, Lower, threshold) up to its while
\* loop
EngineStart(threshold) ==
  /\ curr_comm_ass = OwnCommunity
  /\ degree_wt = VertexWeights
  /\ c_info = FreshInfo
  /\ total_edge_wt_twice = TwiceTotal
  /\ threshold_mod = threshold
  /\ prev_mod = Lower
  /\ curr_mod = Num(-1, 1)
  /\ num_iter = 0
  /\ phase = "start"
  /\ retval = NaN
  /\ e_xx = 0 /\ a2_x = 0
  /\ start_mod = Lower
  /\ BodyIdle
  /\ mmcall = MMNone

EngineInit == \E threshold \in Thresholds : EngineStart(threshold)

\* no graph is loaded
GraphOff ==
  /\ nnodes = 1
  /\ wt = [n \in Nodes |-> [d \in Nodes |-> 0]]

\* the engine is not running, the vertices' curr_comm_ass being comm
EngineNotRunning(comm) ==
  /\ curr_comm_ass = comm
  /\ degree_wt = [n \in Nodes |-> 0]
  /\ c_info = [n \in Nodes |-> [size |-> 0, degree_wt |-> 0]]
  /\ total_edge_wt_twice = 0
  /\ threshold_mod = Num(1, 100)
  /\ prev_mod = Lower
  /\ curr_mod = Num(-1, 1)
  /\ num_iter = 0
  /\ phase = "off"
  /\ retval = NaN
  /\ e_xx = 0 /\ a2_x = 0
  /\ start_mod = Lower
  /\ BodyIdle
  /\ mmcall = MMNone

EngineIdle == EngineNotRunning([n \in Nodes |-> 0])

EngineOff == GraphOff /\ EngineIdle /\ DriverOff

\* the body of a vertex holds the locks of the vertex and of its neighbours
Running(n) == bpc[n] \notin {"todo", "done"}
Locked(n) == {n} \cup Neighbors(n)
CanLock(n) == \A m \in Graph : Running(m) => Locked(m) \cap Locked(n) = {}

\* the weight of the edges inside communities, and the squares of the
\* communities' weights, of the partition curr_comm_ass
InternalWt ==
  Sum([n \in Nodes |->
         Sum([d \in Nodes |->
                IF curr_comm_ass[d] = curr_comm_ass[n] THEN wt[n][d] ELSE 0])])
CommunityWt(c) ==
  Sum([v \in Nodes |-> IF curr_comm_ass[v] = c THEN degree_wt[v] ELSE 0])
SquaredWt == Sum([c \in Nodes |-> CommunityWt(c) * CommunityWt(c)])

\* Q of the partition curr_comm_ass
PartitionMod ==
  IF total_edge_wt_twice = 0 THEN NaN
  ELSE Num(InternalWt * total_edge_wt_twice - SquaredWt,
           total_edge_wt_twice * total_edge_wt_twice)

\* lines 279-286: the loop starts an iteration; num_iter, which the engine
\* only prints, stops counting at MaxIter
Iterate ==
  /\ phase = "start"
  /\ num_iter' = IF num_iter < MaxIter THEN num_iter + 1 ELSE num_iter
  /\ phase' = "loop"
  /\ start_mod' = PartitionMod
  /\ bpc' = [n \in Nodes |-> IF n \in Graph THEN "todo" ELSE "done"]
  /\ UNCHANGED <<graphvars, curr_comm_ass, degree_wt, c_info,
                 total_edge_wt_twice, threshold_mod, prev_mod, curr_mod,
                 retval, e_xx, a2_x, counter, ax, max_gain, max_index, stored_already,
                 local_target, gains, mmcall>>

\* lines 301-325: the weight of the edges of n into each community around it
Scan(n) ==
  [y \in {curr_comm_ass[d] : d \in Locked(n)} |->
     Sum([d \in Nodes |-> IF curr_comm_ass[d] = y THEN wt[n][d] ELSE 0])]

\* lines 311-316
SelfLoopWt(n) == wt[n][n]

\* line 349, and the end of the body: the locals go away
Finish(n, target) ==
  /\ curr_comm_ass' = [curr_comm_ass EXCEPT ![n] = target]
  /\ bpc' = [bpc EXCEPT ![n] = "done"]
  /\ counter' = [counter EXCEPT ![n] = <<>>]
  /\ ax' = [ax EXCEPT ![n] = 0]
  /\ max_gain' = [max_gain EXCEPT ![n] = 0]
  /\ max_index' = [max_index EXCEPT ![n] = 0]
  /\ stored_already' = [stored_already EXCEPT ![n] = 0]
  /\ local_target' = [local_target EXCEPT ![n] = 0]
  /\ gains' = [gains EXCEPT ![n] = <<>>]

fixed == <<graphvars, degree_wt, total_edge_wt_twice, threshold_mod,
           prev_mod, curr_mod, num_iter, phase, retval, e_xx, a2_x,
           start_mod>>

\* lines 290-325 and 330-332: the locks are taken and the neighbours scanned
BodyStart(n) ==
  /\ phase = "loop" /\ bpc[n] = "todo"
  /\ Cardinality({m \in Graph : Running(m)}) < MaxThreads
  /\ CanLock(n)
  /\ IF Degree(n) > 0
       THEN /\ bpc' = [bpc EXCEPT ![n] = "read_ax"]
            /\ counter' = [counter EXCEPT ![n] = Scan(n)]
            /\ UNCHANGED <<curr_comm_ass, ax, max_gain, max_index,
                           stored_already, local_target, gains>>
       ELSE Finish(n, NoComm)
  /\ UNCHANGED <<fixed, c_info, mmcall>>

\* the iterations that are followed
StartIteration == num_iter < MaxIter /\ Iterate

\* the next community of the map that is not sc, or NoComm at the end
NextKey(n, after) ==
  LET later == {y \in DOMAIN counter[n] : y > after /\ y # curr_comm_ass[n]}
  IN  IF later = {} THEN NoComm ELSE MinOf(later)

\* lines 204-214: maxModularity reads c_info[sc].degree_wt
ReadAx(n) ==
  /\ bpc[n] = "read_ax"
  /\ ax' = [ax EXCEPT ![n] = c_info[curr_comm_ass[n]].degree_wt - degree_wt[n]]
  /\ max_index' = [max_index EXCEPT ![n] = curr_comm_ass[n]]
  /\ max_gain' = [max_gain EXCEPT ![n] = 0]
  /\ gains' = [gains EXCEPT ![n] = [y \in {curr_comm_ass[n]} |-> 0]]
  /\ stored_already' = [stored_already EXCEPT ![n] = NextKey(n, -1)]
  /\ bpc' = [bpc EXCEPT ![n] =
               IF NextKey(n, -1) = NoComm THEN "read_size" ELSE "read_ay"]
  /\ UNCHANGED <<fixed, c_info, curr_comm_ass, counter, local_target, mmcall>>

\* line 219 times total_edge_wt_twice^2 / 2
\* (variant: without the term of the community weights)
GainOfEdges(eix, eiy, axv, ay, deg) == total_edge_wt_twice * (eiy - eix)
Gain(eix, eiy, axv, ay, deg) ==
  total_edge_wt_twice * (eiy - eix) + deg * (axv - ay)

\* line 221: the test that moves max_index to community y
\* (variant: a community of equal gain replaces the one found so far)
BetterOrEqual(cur_gain, maxg, y, maxi) == cur_gain >= maxg
Better(cur_gain, maxg, y, maxi) ==
  \/ cur_gain > maxg
  \/ cur_gain = maxg /\ cur_gain # 0 /\ y < maxi

\* lines 214-228: one turn of the loop, reading c_info[y].degree_wt
ReadAy(n) ==
  /\ bpc[n] = "read_ay"
  /\ LET y == stored_already[n]
         sc == curr_comm_ass[n]
         cur_gain == Gain(counter[n][sc] - SelfLoopWt(n), counter[n][y],
                          ax[n], c_info[y].degree_wt, degree_wt[n])
         better == Better(cur_gain, max_gain[n], y, max_index[n])
     IN  /\ max_gain' = [max_gain EXCEPT ![n] = IF better THEN cur_gain ELSE @]
         /\ max_index' = [max_index EXCEPT ![n] = IF better THEN y ELSE @]
         /\ gains' = [gains EXCEPT ![n] =
              [z \in DOMAIN @ \cup {y} |-> IF z = y THEN cur_gain ELSE @[z]]]
         /\ stored_already' = [stored_already EXCEPT ![n] = NextKey(n, y)]
         /\ bpc' = [bpc EXCEPT ![n] =
               IF NextKey(n, y) = NoComm THEN "read_size" ELSE "read_ay"]
  /\ UNCHANGED <<fixed, c_info, curr_comm_ass, counter, ax, local_target,
                 mmcall>>

\* lines 335-349 after maxModularity has returned r
Returned(n, r, s1, s2) ==
  /\ mmcall' = [n |-> n, sc |-> curr_comm_ass[n], gain |-> gains[n],
                best |-> max_index[n], size1 |-> s1, size2 |-> s2, res |-> r]
  /\ IF r # curr_comm_ass[n] /\ r # NoComm
       THEN /\ local_target' = [local_target EXCEPT ![n] = r]
            /\ bpc' = [bpc EXCEPT ![n] = "add_degree_wt"]
            /\ UNCHANGED <<curr_comm_ass, counter, ax, max_gain, max_index,
                           stored_already, gains>>
       ELSE Finish(n, r)

\* line 230: maxModularity reads c_info[max_index].size
ReadSize(n) ==
  /\ bpc[n] = "read_size"
  /\ IF c_info[max_index[n]].size = 1
       THEN /\ bpc' = [bpc EXCEPT ![n] = "read_size_sc"]
            /\ UNCHANGED <<curr_comm_ass, counter, ax, max_gain, max_index,
                           stored_already, local_target, gains, mmcall>>
       ELSE Returned(n, max_index[n], c_info[max_index[n]].size, 0)
  /\ UNCHANGED <<fixed, c_info>>

\* lines 230-234: what maxModularity returns once both sizes are read
\* (variant: without the test of line 230)
NoSingletonRule(maxi, sc, s1, s2) == maxi
\* (variant: the comparison of line 230 the other way round)
SingletonRuleBelow(maxi, sc, s1, s2) ==
  IF s1 = 1 /\ s2 = 1 /\ maxi < sc THEN sc ELSE maxi
SingletonRule(maxi, sc, s1, s2) ==
  IF s1 = 1 /\ s2 = 1 /\ maxi > sc THEN sc ELSE maxi

\* line 230: maxModularity reads c_info[sc].size
ReadSizeSc(n) ==
  /\ bpc[n] = "read_size_sc"
  /\ LET s2 == c_info[curr_comm_ass[n]].size
     IN  Returned(n, SingletonRule(max_index[n], curr_comm_ass[n], 1, s2),
                  1, s2)
  /\ UNCHANGED <<fixed, c_info>>

\* what each of lines 337-340 adds or takes away
MovedWt(n) == degree_wt[n]
MovedSize(n) == 1

\* line 337
AddDegreeWt(n) ==
  /\ bpc[n] = "add_degree_wt"
  /\ c_info' = [c_info EXCEPT ![local_target[n]].degree_wt = @ + MovedWt(n)]
  /\ bpc' = [bpc EXCEPT ![n] = "add_size"]
  /\ UNCHANGED <<fixed, curr_comm_ass, counter, ax, max_gain, max_index,
                 stored_already, local_target, gains, mmcall>>

\* line 338
AddSize(n) ==
  /\ bpc[n] = "add_size"
  /\ c_info' = [c_info EXCEPT ![local_target[n]].size = @ + MovedSize(n)]
  /\ bpc' = [bpc EXCEPT ![n] = "sub_degree_wt"]
  /\ UNCHANGED <<fixed, curr_comm_ass, counter, ax, max_gain, max_index,
                 stored_already, local_target, gains, mmcall>>

\* what line 339 takes away
\* (variant: 1, as line 340 does)
LeftOne(n) == 1
\* (variant: the weight of the vertex twice)
LeftTwice(n) == 2 * degree_wt[n]
LeftWt(n) == degree_wt[n]

\* line 339; a negative value stands for the wrapped one, 2^64 more
SubDegreeWt(n) ==
  /\ bpc[n] = "sub_degree_wt"
  /\ c_info' = [c_info EXCEPT ![curr_comm_ass[n]].degree_wt = @ - LeftWt(n)]
  /\ bpc' = [bpc EXCEPT ![n] = "sub_size"]
  /\ UNCHANGED <<fixed, curr_comm_ass, counter, ax, max_gain, max_index,
                 stored_already, local_target, gains, mmcall>>

\* lines 340 and 349
SubSize(n) ==
  /\ bpc[n] = "sub_size"
  /\ c_info' = [c_info EXCEPT ![curr_comm_ass[n]].size = @ - MovedSize(n)]
  /\ Finish(n, local_target[n])
  /\ UNCHANGED <<fixed, mmcall>>

\* lines 370-380: cluster_wt_internal[n]
ClusterWtInternal(n) ==
  Sum([d \in Nodes |->
         IF curr_comm_ass[d] = curr_comm_ass[n] THEN wt[n][d] ELSE 0])

\* lines 384-388: the do_all adds into the plain doubles e_xx and a2_x from
\* all its threads; an addition that overwrites another loses it, so each
\* total is the sum over some of the vertices (all of them with one thread)
Racy(f) == {Sum([n \in Nodes |-> IF n \in S THEN f[n] ELSE 0]) :
              S \in SUBSET Graph \ {{}}}

\* line 392
\* (variant: a2_x multiplied by the constant once, not twice)
ModularityOnce(e, a2) ==
  IF total_edge_wt_twice = 0 THEN NaN
  ELSE Num(e * total_edge_wt_twice - a2 * total_edge_wt_twice,
           total_edge_wt_twice * total_edge_wt_twice)
Modularity(e, a2) ==
  IF total_edge_wt_twice = 0 THEN NaN
  ELSE Num(e * total_edge_wt_twice - a2,
           total_edge_wt_twice * total_edge_wt_twice)

\* line 407: what the engine returns when it leaves the loop
\* (variant: the modularity of the iteration that left the loop)
ReturnsCurrent(pm, cm) == cm
Returns(pm, cm) == pm

\* line 397
\* (variant: the difference is below the threshold in either direction)
ConvergedEitherWay(cm, pm) ==
  /\ DLess(DSub(cm, pm), threshold_mod)
  /\ DLess(DSub(pm, cm), threshold_mod)
Converged(cm, pm) == DLess(DSub(cm, pm), threshold_mod)

\* lines 359-407: the modularity and the convergence test
EndIteration ==
  /\ phase = "loop"
  /\ \A n \in Graph : bpc[n] = "done"
  /\ e_xx' \in Racy([n \in Nodes |-> ClusterWtInternal(n)])
  /\ a2_x' \in Racy([n \in Nodes |->
                        c_info[n].degree_wt * c_info[n].degree_wt])
  /\ curr_mod' = Modularity(e_xx', a2_x')
  /\ IF Converged(curr_mod', prev_mod)
       THEN /\ phase' = "exit" /\ prev_mod' = prev_mod
            /\ retval' = Returns(prev_mod, curr_mod')
       ELSE phase' = "start" /\ retval' = retval /\ prev_mod' = curr_mod'
  /\ UNCHANGED <<graphvars, curr_comm_ass, degree_wt, c_info,
                 total_edge_wt_twice, threshold_mod, num_iter, bodyvars,
                 mmcall, start_mod>>

(* --------------------------- vertexFollowing --------------------------- *)
VARIABLES
  clusters,        \* the array that vertexFollowing marks
  vfpc,            \* position of each vertex in the two do_all loops
  dst,             \* the local dst of each body of the second loop
  isolatedNodes,   \* the accumulator
  vfret            \* what vertexFollowing returned, NoComm before it returns

vfvars == <<clusters, vfpc, dst, isolatedNodes, vfret>>

\* what an entry of clusters holds before vertexFollowing writes it
Stale == -2

VFOff ==
  /\ clusters = [n \in Nodes |-> Stale]
  /\ vfpc = [n \in Nodes |-> "off"]
  /\ dst = [n \in Nodes |-> NoComm]
  /\ isolatedNodes = 0
  /\ vfret = NoComm

\* main, lines 460-463: the array is allocated and vertexFollowing called
VFInit ==
  /\ clusters = [n \in Nodes |-> Stale]
  /\ vfpc = [n \in Nodes |-> IF n \in Graph THEN "assign" ELSE "off"]
  /\ dst = [n \in Nodes |-> NoComm]
  /\ isolatedNodes = 0
  /\ vfret = NoComm

\* the CSR arrays: the adjacency lists of vertices 0 .. n, one after another
RECURSIVE Ascending(_)
Ascending(S) ==
  IF S = {} THEN <<>> ELSE <<MinOf(S)>> \o Ascending(S \ {MinOf(S)})

RECURSIVE EdgeDstUpTo(_)
EdgeDstUpTo(n) ==
  IF n < 0 THEN <<>> ELSE EdgeDstUpTo(n - 1) \o Ascending(Neighbors(n))

\* edgeDst, and *graph.edge_end(n)
EdgeDst == EdgeDstUpTo(LastNode)
EdgeEnd(n) == Len(EdgeDstUpTo(n))

\* lines 144-145: the first loop
VFAssign(n) ==
  /\ vfpc[n] = "assign"
  /\ curr_comm_ass' = [curr_comm_ass EXCEPT ![n] = n]
  /\ vfpc' = [vfpc EXCEPT ![n] = "body"]
  /\ UNCHANGED <<clusters, dst, isolatedNodes, vfret>>

\* line 162: the test that lets n follow d
\* (variant: n >= dst where line 162 has n > dst)
FollowsOrSelf(n, d) == Degree(d) > 1 \/ n >= d
Follows(n, d) == Degree(d) > 1 \/ n > d

\* lines 162-165 with the vertex d that line 159 found
VFMark(n, d) ==
  /\ dst' = [dst EXCEPT ![n] = d]
  /\ IF Follows(n, d)
       THEN /\ isolatedNodes' = isolatedNodes + 1
            /\ clusters' = [clusters EXCEPT ![n] = curr_comm_ass[d]]
       ELSE UNCHANGED <<isolatedNodes, clusters>>

\* line 159 read past the end of edgeDst: dst is whatever lies there, and
\* lines 160-164 read the graph's arrays at that index
VFWild(n) ==
  \/ \E d \in Graph : VFMark(n, d)
  \/ /\ dst' = [dst EXCEPT ![n] = LastNode + 1]
     /\ \/ UNCHANGED <<isolatedNodes, clusters>>
        \/ /\ isolatedNodes' = isolatedNodes + 1
           /\ \E c \in Graph \cup {NoComm} :
                clusters' = [clusters EXCEPT ![n] = c]

\* lines 150-168: the body of the second loop
VFBody(n) ==
  /\ vfpc[n] = "body"
  /\ \A m \in Graph : vfpc[m] # "assign"
  /\ vfpc' = [vfpc EXCEPT ![n] = "done"]
  /\ IF Degree(n) = 0
       THEN /\ isolatedNodes' = isolatedNodes + 1
            /\ clusters' = [clusters EXCEPT ![n] = NoComm]
            /\ UNCHANGED dst
       ELSE IF Degree(n) = 1
         THEN IF EdgeEnd(n) < Len(EdgeDst)
                THEN VFMark(n, EdgeDst[EdgeEnd(n) + 1])
                ELSE VFWild(n)
         ELSE UNCHANGED <<isolatedNodes, clusters, dst>>
  /\ UNCHANGED <<curr_comm_ass, vfret>>

\* line 170
VFReturn ==
  /\ vfret = NoComm
  /\ \A n \in Graph : vfpc[n] = "done"
  /\ vfret' = isolatedNodes
  /\ UNCHANGED <<clusters, vfpc, dst, isolatedNodes, curr_comm_ass>>

(* --------------------------- specifications ---------------------------- *)
\* observers of the single-worker runs and of the polling runs
VARIABLES
  lifo,      \* the unmatched pushes of worker 0, oldest first
  popret,    \* the (ok, item) the last completed pop of worker 0 returned
  popexp,    \* the (ok, item) a LIFO stack would have returned for that pop
  popvia,    \* where that pop took its item: "chunk" (current) or "stack"
  poller,    \* the worker that keeps calling pop
  fetched    \* how many chunks pops of the worklist have returned

obsvars == <<lifo, popret, popexp, popvia, poller, fetched>>

vars == <<wlvars, obsvars, lvvars, vfvars>>

ObsInit ==
  /\ lifo = <<>>
  /\ popret = <<FALSE, 0>>
  /\ popexp = <<FALSE, 0>>
  /\ popvia = "none"
  /\ poller = 0
  /\ fetched = 0

\* everything a worklist action leaves alone
rest == <<nlev, obsvars, lvvars, vfvars>>

Init == WLInit /\ ObsInit /\ EngineOff /\ VFOff

\* the steps inside a call
Internal(w) ==
  \/ LifoPushRead(w)
  \/ LifoPushCAS(w)
  \/ PopFast(w)
  \/ PopLock(w)
  \/ PopTake(w)
  \/ StealFast(w)
  \/ StealTryLock(w)
  \/ StealTake(w)

\* workers call push, pushi and pop in any order and interleaving
Next ==
  \/ \E w \in Workers : nitems < ConcPush /\ CallPush(w) /\ UNCHANGED rest
  \/ \E w \in Workers : nitems < ConcPush /\ CallPushi(w) /\ UNCHANGED rest
  \/ \E w \in Workers : \E len \in 1 .. MaxRange :
       nitems + len <= ConcPush /\ CallPushRange(w, len) /\ UNCHANGED rest
  \/ \E w \in Workers : \E len \in 1 .. MaxRange :
       nitems + len <= ConcPush /\ CallPushiRange(w, len) /\ UNCHANGED rest
  \/ \E w \in Workers : CallPop(w) /\ UNCHANGED rest
  \/ \E w \in Workers : LifoPushRead(w) /\ UNCHANGED rest
  \/ \E w \in Workers : LifoPushCAS(w) /\ UNCHANGED rest
  \/ \E w \in Workers : PopFast(w) /\ UNCHANGED rest
  \/ \E w \in Workers : PopLock(w) /\ UNCHANGED rest
  \/ \E w \in Workers : PopTake(w) /\ UNCHANGED rest
  \/ \E w \in Workers : StealFast(w) /\ UNCHANGED rest
  \/ \E w \in Workers : StealTryLock(w) /\ UNCHANGED rest
  \/ \E w \in Workers : StealTake(w) /\ UNCHANGED rest

Spec == Init /\ [][Next]_vars

(* ---- one worker, push(x) and pop() only, against an unbounded LIFO ---- *)
\* what the pop that this step completes returned
PopResult ==
  IF \E x \in Items : popcount'[x] # popcount[x]
  THEN <<TRUE, CHOOSE x \in Items : popcount'[x] # popcount[x]>>
  ELSE <<FALSE, 0>>

\* record a pop of worker 0 when the step returns from it
ObservePop(via) ==
  IF pc'[0] = "idle"
  THEN /\ popret' = PopResult
       /\ popexp' = IF lifo = <<>> THEN <<FALSE, 0>> ELSE <<TRUE, lifo[Len(lifo)]>>
       /\ lifo' = IF lifo = <<>> THEN lifo ELSE SubSeq(lifo, 1, Len(lifo) - 1)
       /\ popvia' = via
  ELSE UNCHANGED <<lifo, popret, popexp, popvia>>

\* with one worker steal never finds a chunk it could lock and take: the
\* worker's own pop emptied or found empty every stack it looks at
SingleNext ==
  \/ /\ CallPush(0)
     /\ lifo' = Append(lifo, nitems + 1)
     /\ UNCHANGED <<lvvars, vfvars, nlev, popret, popexp, popvia, poller,
                    fetched>>
  \/ CallPop(0) /\ ObservePop("chunk")
     /\ UNCHANGED <<lvvars, vfvars, nlev, poller, fetched>>
  \/ LifoPushRead(0) /\ UNCHANGED rest
  \/ LifoPushCAS(0) /\ UNCHANGED rest
  \/ PopFast(0) /\ UNCHANGED rest
  \/ PopLock(0) /\ UNCHANGED rest
  \/ PopTake(0) /\ ObservePop("stack")
     /\ UNCHANGED <<lvvars, vfvars, nlev, poller, fetched>>
  \/ StealFast(0) /\ ObservePop("none")
     /\ UNCHANGED <<lvvars, vfvars, nlev, poller, fetched>>

SpecSingle == Init /\ [][SingleNext]_vars

(* ------- fair scheduling, with one worker that keeps calling pop ------- *)
LiveInit ==
  /\ WLInit
  /\ lifo = <<>> /\ popret = <<FALSE, 0>> /\ popexp = <<FALSE, 0>>
  /\ popvia = "none" /\ fetched = 0
  /\ poller \in Workers
  /\ EngineOff /\ VFOff

\* everything but fetched that a worklist action leaves alone
liverest == <<nlev, lifo, popret, popexp, popvia, poller, lvvars, vfvars>>

\* a pop or steal that detaches a chunk changes a head word
CountFetch == fetched' = IF head' # head THEN fetched + 1 ELSE fetched

LiveCallPush(w) ==
  nitems < LivePush /\ CallPush(w) /\ UNCHANGED <<liverest, fetched>>
LiveCallPushRange(w) ==
  \E len \in 1 .. MaxRange :
    nitems + len <= LivePush /\ CallPushRange(w, len) /\ UNCHANGED <<liverest, fetched>>
LiveCallPop(w) == CallPop(w) /\ UNCHANGED <<liverest, fetched>>
LiveInternal(w) ==
  \/ LifoPushRead(w) /\ UNCHANGED <<liverest, fetched>>
  \/ LifoPushCAS(w) /\ UNCHANGED <<liverest, fetched>>
  \/ PopFast(w) /\ UNCHANGED <<liverest, fetched>>
  \/ PopLock(w) /\ UNCHANGED <<liverest, fetched>>
  \/ PopTake(w) /\ CountFetch /\ UNCHANGED liverest
  \/ StealFast(w) /\ UNCHANGED <<liverest, fetched>>
  \/ StealTryLock(w) /\ UNCHANGED <<liverest, fetched>>
  \/ StealTake(w) /\ CountFetch /\ UNCHANGED liverest

LiveNext ==
  \/ \E w \in Workers : LiveCallPush(w)
  \/ \E w \in Workers : LiveCallPushRange(w)
  \/ \E w \in Workers : LiveCallPop(w)
  \/ \E w \in Workers : LiveInternal(w)

\* a thread inside a call keeps running; the poller calls pop again
Fairness ==
  /\ \A w \in Workers : WF_vars(LiveInternal(w))
  /\ \A w \in Workers : WF_vars(poller = w /\ LiveCallPop(w))

SpecLive == LiveInit /\ [][LiveNext]_vars /\ Fairness

(* ---- every push is a pushi: pushi(x), pushi(range) and pop only ------- *)
PushiNext ==
  \/ \E w \in Workers : nitems < ConcPush /\ CallPushi(w) /\ UNCHANGED rest
  \/ \E w \in Workers : \E len \in 1 .. MaxRange :
       nitems + len <= ConcPush /\ CallPushiRange(w, len) /\ UNCHANGED rest
  \/ \E w \in Workers : CallPop(w) /\ UNCHANGED rest
  \/ \E w \in Workers : LifoPushRead(w) /\ UNCHANGED rest
  \/ \E w \in Workers : LifoPushCAS(w) /\ UNCHANGED rest
  \/ \E w \in Workers : PopFast(w) /\ UNCHANGED rest
  \/ \E w \in Workers : PopLock(w) /\ UNCHANGED rest
  \/ \E w \in Workers : PopTake(w) /\ UNCHANGED rest
  \/ \E w \in Workers : StealFast(w) /\ UNCHANGED rest
  \/ \E w \in Workers : StealTryLock(w) /\ UNCHANGED rest
  \/ \E w \in Workers : StealTake(w) /\ UNCHANGED rest

SpecPushi == Init /\ [][PushiNext]_vars

(* ============================ properties =============================== *)

\* C1: under any interleaving of push, pop and steal, every pushed item is
\* returned by at most one successful pop.
NoDuplication == \A x \in Items : popcount[x] <= 1

\* a worker popped an item out of a chunk that the other worker allocated,
\* filled and pushed, and that it stole from the other worker's stack
StolenItemPopped ==
  /\ nlev = 2
  /\ \E w \in Workers :
       /\ pc[w] = "idle" /\ cur[w] \in live /\ owner[cur[w]] # w
       /\ Len(items[cur[w]]) = ChunkSize - 1
  /\ \E x \in Items : popcount[x] = 1

\* C2: no item is lost: the items pushed so far are the items popped so far
\* plus the items in the workers' current chunks and in the chunks on the
\* stacks, as multisets.
Conservation ==
  LET r == ResidentItems
  IN  \A x \in Items : PushedCount(x) = popcount[x] + Count(x, r)

\* all items are pushed, by push(x), bulk push or pushi; one is popped, some
\* are on a stack and some in a current chunk
ConservationWitness ==
  /\ nitems = ConcPush
  /\ \A w \in Workers : pc[w] = "idle"
  /\ \E x \in Items : popcount[x] = 1
  /\ LinkedSeq # <<>>
  /\ \E w \in Workers : cur[w] # NULL /\ items[cur[w]] # <<>>

\* C3: one worker, push(x) and pop(): every pop returns what an unbounded
\* LIFO stack returns, (false, _) exactly when there is no unmatched push;
\* between calls the chunks hold the unmatched pushes in push order.
RECURSIVE Rev(_)
Rev(q) == IF q = <<>> THEN <<>> ELSE Rev(Tail(q)) \o <<Head(q)>>

SingleWorkerLifo ==
  /\ popret = popexp
  /\ pc[0] = "idle" => Flatten(Rev(LinkedSeq) \o CurSeq) = lifo

\* a pop that had to fetch a chunk from the stack returned an item while a
\* further full chunk is still on the stack
PopAcrossChunks ==
  /\ popvia = "stack" /\ popret[1]
  /\ pc[0] = "idle"
  /\ LinkedSeq # <<>>

\* C4: a linked chunk and a polling worker lead to a pop that returns a
\* chunk, under fair scheduling.
PopProgress ==
  \A k \in 0 .. MaxPush : (LinkedSeq # <<>> /\ fetched = k) ~> (fetched > k)

\* a steal is about to fail in try_lock: the victim's stack holds a chunk
\* and another worker holds its lock
TryLockContended ==
  \E w \in Workers :
    pc[w] = "steal_try" /\ locked[sid[w]] /\ head[sid[w]] # NULL

\* C5 as stated: every live chunk is the current chunk of exactly one worker
\* or linked exactly once on exactly one stack.
ChunkInExactlyOnePlace ==
  LET l == LinkedSeq
      k == CurSeq
  IN  \A c \in live : Count(c, k) + Count(c, l) = 1

\* C5 amended: a linked chunk is live; no live chunk is on two stacks, twice
\* on a stack, the current chunk of two workers, or both linked and current;
\* a live chunk that is in neither place is the chunk a pushi(range) call in
\* progress has filled and not yet linked.
ChunkInAtMostOnePlace ==
  LET l == LinkedSeq
      k == CurSeq
  IN  /\ \A c \in Chunks : Count(c, l) > 0 => c \in live
      /\ \A c \in live : Count(c, k) + Count(c, l) <= 1
      /\ \A c \in live : Count(c, k) + Count(c, l) = 0 => InFlight(c)

\* one chunk is linked, one is current and one is held by a pushi(range)
ChunkPlacesWitness ==
  /\ LinkedSeq # <<>>
  /\ \E w \in Workers : cur[w] \in live
  /\ \E c \in live : InFlight(c)

\* C6: a pushi call, single value or range, hands its items to the worklist's
\* pushi and never changes the calling worker's current chunk.
PushiBypassesCurrentChunk ==
  [][/\ nitems' # nitems =>
          /\ cur' = cur
          /\ \A w \in Workers : cur[w] # NULL => items'[cur[w]] = items[cur[w]]
     /\ \A w \in Workers : op[w] \in {"pushi", "pushir"} => cur'[w] = cur[w]
     /\ \A w \in Workers : op'[w] \in {"pushi", "pushir"} => route'[w] = "pushi"
    ]_vars

(* ------------------- the engine on every small graph ------------------- *)
WLOff == WLInit /\ nlev = 1 /\ ObsInit

LouvainInit == GraphInit /\ EngineInit /\ DriverOff /\ VFOff /\ WLOff

LouvainNext ==
  \/ StartIteration /\ UNCHANGED <<wlvars, obsvars, vfvars, drvvars>>
  \/ \E n \in Graph : BodyStart(n) /\ UNCHANGED <<wlvars, obsvars, vfvars, drvvars>>
  \/ \E n \in Graph : ReadAx(n) /\ UNCHANGED <<wlvars, obsvars, vfvars, drvvars>>
  \/ \E n \in Graph : ReadAy(n) /\ UNCHANGED <<wlvars, obsvars, vfvars, drvvars>>
  \/ \E n \in Graph : ReadSize(n) /\ UNCHANGED <<wlvars, obsvars, vfvars, drvvars>>
  \/ \E n \in Graph : ReadSizeSc(n) /\ UNCHANGED <<wlvars, obsvars, vfvars, drvvars>>
  \/ \E n \in Graph : AddDegreeWt(n) /\ UNCHANGED <<wlvars, obsvars, vfvars, drvvars>>
  \/ \E n \in Graph : AddSize(n) /\ UNCHANGED <<wlvars, obsvars, vfvars, drvvars>>
  \/ \E n \in Graph : SubDegreeWt(n) /\ UNCHANGED <<wlvars, obsvars, vfvars, drvvars>>
  \/ \E n \in Graph : SubSize(n) /\ UNCHANGED <<wlvars, obsvars, vfvars, drvvars>>
  \/ EndIteration /\ UNCHANGED <<wlvars, obsvars, vfvars, drvvars>>

SpecLouvain == LouvainInit /\ [][LouvainNext]_vars

\* C7: the total of c_info[c].degree_wt is the total of degree_wt(v) whenever
\* no migration is between its add and its subtract, so at every iteration
\* boundary; a migration in between has added the vertex's weight once more.
DegreeWtConserved ==
  Sum([c \in Nodes |-> c_info[c].degree_wt]) =
    Sum(degree_wt) +
    Sum([n \in Nodes |->
           IF bpc[n] \in {"add_size", "sub_degree_wt"} THEN degree_wt[n] ELSE 0])

\* an iteration in which two vertices migrated has ended
MigrationsCompleted ==
  /\ phase = "start" /\ num_iter >= 1
  /\ \E n, m \in Graph :
       /\ n # m
       /\ curr_comm_ass[n] \notin {n, NoComm}
       /\ curr_comm_ass[m] \notin {m, NoComm}

\* the vertices of community c
Members(c) == {v \in Graph : curr_comm_ass[v] = c}

\* the per-vertex loop of an iteration has finished
AtBoundary == phase \in {"start", "exit"} /\ num_iter >= 1

\* C8: at every iteration boundary, after the per-vertex loop, c_info[c].size
\* is the number of vertices
\* of community c and c_info[c].degree_wt the total of their degree_wt, and
\* the sizes add up to the number of vertices of nonzero degree.
CommunityRecordsMatch ==
  AtBoundary =>
    /\ \A c \in Graph :
         /\ c_info[c].size = Cardinality(Members(c))
         /\ c_info[c].degree_wt =
              Sum([v \in Nodes |-> IF v \in Members(c) THEN degree_wt[v] ELSE 0])
    /\ Sum([c \in Nodes |-> c_info[c].size]) =
         Cardinality({v \in Graph : Degree(v) > 0})

\* the gains that a call of maxModularity computed, the current community
\* counting as gain 0
MaxGainOf(call) == MaxOf({call.gain[y] : y \in DOMAIN call.gain})
ArgMax(call) == {y \in DOMAIN call.gain : call.gain[y] = MaxGainOf(call)}
RuleFired(call) ==
  call.size1 = 1 /\ call.size2 = 1 /\ call.best > call.sc /\ call.res = call.sc

\* C9 as stated: maxModularity returns the smallest community id among the
\* communities of maximum gain, unless the singleton-pair rule forces the
\* current community.
SmallestIdOfMaxGain ==
  mmcall # MMNone =>
    \/ RuleFired(mmcall)
    \/ mmcall.res = MinOf(ArgMax(mmcall))

\* C9 amended: maxModularity returns a community of maximum gain: the one of
\* smallest id when the maximum gain is positive, the current community when
\* no community has a positive gain; unless the singleton-pair rule forces
\* the current community.
MaxGainPositiveTieBreak ==
  mmcall # MMNone =>
    \/ RuleFired(mmcall)
    \/ /\ mmcall.res \in ArgMax(mmcall)
       /\ MaxGainOf(mmcall) > 0 => mmcall.res = MinOf(ArgMax(mmcall))
       /\ MaxGainOf(mmcall) = 0 => mmcall.res = mmcall.sc

\* two communities tie at a positive maximum gain and the smaller is returned
PositiveTie ==
  /\ mmcall # MMNone
  /\ MaxGainOf(mmcall) > 0
  /\ Cardinality(ArgMax(mmcall)) >= 2
  /\ ~RuleFired(mmcall)
  /\ mmcall.res = MinOf(ArgMax(mmcall))


(* ------------------- vertexFollowing on every small graph -------------- *)
vfrest == <<wlvars, obsvars, graphvars, degree_wt, c_info,
            total_edge_wt_twice, threshold_mod, prev_mod, curr_mod, num_iter,
            phase, retval, e_xx, a2_x, start_mod, bodyvars, mmcall, drvvars>>

VFSpecInit == GraphInit /\ EngineIdle /\ DriverOff /\ VFInit /\ WLOff

VFNext ==
  \/ \E n \in Graph : VFAssign(n) /\ UNCHANGED vfrest
  \/ \E n \in Graph : VFBody(n) /\ UNCHANGED vfrest
  \/ VFReturn /\ UNCHANGED vfrest

SpecVF == VFSpecInit /\ [][VFNext]_vars

\* the unique neighbour of a vertex of degree 1
OnlyNeighbor(n) == CHOOSE d \in Neighbors(n) : TRUE

\* C10: once the body of n has run, clusters[n] is -1 if deg(n) = 0; it is
\* curr_comm(d) for the only neighbour d of n if deg(n) = 1 and deg(d) > 1 or
\* n > d; it is unchanged otherwise; and the vertex whose degree and
\* community the body used is that neighbour.
VertexFollowingRule ==
  \A n \in Graph : vfpc[n] = "done" =>
    IF Degree(n) = 0 THEN clusters[n] = NoComm
    ELSE IF Degree(n) = 1
      THEN /\ dst[n] = OnlyNeighbor(n)
           /\ IF Degree(OnlyNeighbor(n)) > 1 \/ n > OnlyNeighbor(n)
                THEN clusters[n] = curr_comm_ass[OnlyNeighbor(n)]
                ELSE clusters[n] = Stale
      ELSE clusters[n] = Stale

\* the path 0 - 1 with one edge of weight 1
IsPath01 == nnodes = 2 /\ wt[0][1] = 1

\* C11 as stated: on the path 0 - 1, vertexFollowing marks clusters[0] with
\* curr_comm(1) = 1.
PathMarksVertex0 ==
  (IsPath01 /\ vfpc[0] = "done") =>
    clusters[0] = curr_comm_ass[1] /\ clusters[0] = 1

\* C11 amended: on the path 0 - 1, vertexFollowing leaves clusters[0] as it
\* was: vertex 0 is not collapsed into vertex 1.
PathLeavesVertex0 ==
  (IsPath01 /\ vfpc[0] = "done") => clusters[0] = Stale

\* vertexFollowing has returned on the path 0 - 1
PathFollowed ==
  IsPath01 /\ vfpc[0] = "done" /\ vfpc[1] = "done" /\ vfret # NoComm

\* the triangle K3 with unit weights
IsK3 == nnodes = 3 /\ wt[0][1] = 1 /\ wt[0][2] = 1 /\ wt[1][2] = 1

\* C12: on K3, after the first iteration and when the engine has converged,
\* all three vertices are in community 0, whatever the order of the bodies.
TriangleJoinsZero ==
  (IsK3 /\ AtBoundary) => \A v \in Graph : curr_comm_ass[v] = 0

\* the engine has left its loop on K3
TriangleConverged == IsK3 /\ phase = "exit" /\ num_iter >= 2

\* x = y for two doubles, false when either is NaN
DEq(x, y) == ~x.nan /\ ~y.nan /\ x.n * y.d = y.n * x.d

\* the sums of lines 384-388 when no addition is lost
ExactExx == Sum([n \in Nodes |-> ClusterWtInternal(n)])
ExactA2x ==
  Sum([n \in Nodes |-> c_info[n].degree_wt * c_info[n].degree_wt])
NoLostUpdate == e_xx = ExactExx /\ a2_x = ExactA2x

IsEdgeless2 == nnodes = 2 /\ wt[0][1] = 0

\* C14: on two vertices without an edge the engine computes Q = 0 and leaves
\* its loop at the end of the first iteration.
EdgelessExitsAtOnce ==
  (IsEdgeless2 /\ AtBoundary) =>
    DEq(curr_mod, Num(0, 1)) /\ phase = "exit" /\ num_iter = 1

(* ------------- the engine on two triangles joined by an edge ----------- *)
\* the triangles {0,1,2} and {3,4,5} with the edge a - b between them
MkBarbell(a, b) ==
  [n \in Nodes |-> [d \in Nodes |->
     IF <<n, d>> \in TriangleEdges \cup {<<a, b>>}
        \/ <<d, n>> \in TriangleEdges \cup {<<a, b>>}
     THEN 1 ELSE 0]]

\* the joining edges that are followed
Bridges == {<<2, 3>>, <<0, 5>>}

\* the default threshold
BarbellInit ==
  /\ nnodes = Cardinality(UNION {{e[1], e[2]} : e \in TriangleEdges})
  /\ \E e \in Bridges : wt = MkBarbell(e[1], e[2])
  /\ EngineInit /\ DriverOff /\ VFOff /\ WLOff
  /\ threshold_mod = Num(1, 100)

SpecBarbell == BarbellInit /\ [][LouvainNext]_vars

\* C18: a step of LIFO_SB::push leaves every lock as it is; its CAS succeeds
\* only while the head is unlocked, and then links the pushed chunk on top
\* of the unchanged chain; no step takes from a stack anything but its top
\* chunk, so a chunk pushed while a pop or steal is under way is not dropped.
PushNeverDropped ==
  [][/\ \A w \in Workers :
          (pc[w] \in {"push_read", "push_cas"} /\ pc'[w] # pc[w]) =>
            /\ locked' = locked
            /\ head'[EffectiveID(w)] # head[EffectiveID(w)] =>
                 /\ pc[w] = "push_cas"
                 /\ ~locked[EffectiveID(w)]
                 /\ StackChain(EffectiveID(w))' =
                      <<val[w]>> \o StackChain(EffectiveID(w))
     /\ \A s \in Levels :
          LET c == StackChain(s)
              d == StackChain(s)'
          IN  \/ d = c
              \/ d # <<>> /\ Tail(d) = c
              \/ c # <<>> /\ d = Tail(c)
    ]_vars

\* a push is at its CAS with the head it read still in place, while a pop or
\* steal holds the lock of that head
PushMeetsLock ==
  \E w \in Workers :
    /\ pc[w] = "push_cas"
    /\ head[EffectiveID(w)] = oldhead[w]
    /\ head[EffectiveID(w)] # NULL
    /\ locked[EffectiveID(w)]

\* the positions of a worker inside steal
StealPcs == {"steal_fast", "steal_try", "steal_take"}

\* worker w ends a steal attempt without a chunk in this step
AttemptFails(w) ==
  /\ pc[w] \in StealPcs
  /\ head' = head
  /\ si'[w] # si[w] \/ pc'[w] = "idle"

\* C19 as stated: a steal attempt ends without a chunk, and so pop returns
\* null, only when the attempt found the victim's stack empty.
NullOnlyWhenAllEmpty ==
  [][\A w \in Workers : AttemptFails(w) => head[sid[w]] = NULL]_vars

\* C19 amended: pop takes from the caller's own stack first; it starts to
\* steal only when that found nothing; attempt number i goes to stack
\* (my_id + 1 + i) mod N; the first steal that gets a chunk ends the call
\* with that chunk; an attempt ends without a chunk when the victim is empty
\* or its lock is taken, and pop returns null only after the last attempt.
StealInOrder ==
  [][\A w \in Workers :
       /\ (pc[w] = "idle" /\ pc'[w] # "idle" /\ op'[w] = "pop") =>
            pc'[w] = "pop_fast"
       /\ (pc[w] \notin StealPcs /\ pc'[w] \in StealPcs) =>
            /\ pc[w] \in {"pop_fast", "pop_take"}
            /\ head[EffectiveID(w)] = NULL
            /\ si'[w] = 0
       /\ pc'[w] \in StealPcs =>
            /\ si'[w] < nlev
            /\ sid'[w] = (EffectiveID(w) + 1 + si'[w]) % nlev
       /\ AttemptFails(w) =>
            /\ \/ pc[w] \in {"steal_fast", "steal_take"} /\ head[sid[w]] = NULL
               \/ pc[w] = "steal_try" /\ locked[sid[w]]
            /\ pc'[w] = "idle" => si[w] = nlev - 1 /\ cur'[w] = NULL
            /\ pc'[w] # "idle" => si'[w] = si[w] + 1 /\ pc'[w] = "steal_fast"
       /\ (pc[w] \in StealPcs /\ pc'[w] # pc[w] /\ head' # head) =>
            /\ pc[w] = "steal_take" /\ pc'[w] = "idle"
            /\ cur'[w] = head[sid[w]]
    ]_vars

\* the first victim's lock was taken, the worker went on to the next stack,
\* and the first victim still holds a chunk
StealMovedOn ==
  \E w \in Workers :
    /\ nlev = 2
    /\ pc[w] = "steal_fast" /\ si[w] = 1
    /\ locked[NextVictim(EffectiveID(w))]
    /\ head[NextVictim(EffectiveID(w))] # NULL

\* C20: every chunk that a worker has deallocated (delChunk) was allocated
\* (mkChunk) by the same worker.
NoCrossThreadFree ==
  \A w \in Workers : \A c \in freed[w] : owner[c] = w

\* the communities that vertices are in
Communities == {curr_comm_ass[v] : v \in Graph}

\* C15: on two triangles joined by an edge the engine leaves its loop with
\* exactly two communities, {0,1,2} and {3,4,5}, each of size 3, and the
\* modularity of that partition is positive, so above the 0 of the partition
\* into one community.
TwoTriangleCommunities ==
  phase = "exit" =>
    /\ Cardinality(Communities) = 2
    /\ \A u, v \in 0 .. 2 : curr_comm_ass[u] = curr_comm_ass[v]
    /\ \A u, v \in 3 .. 5 : curr_comm_ass[u] = curr_comm_ass[v]
    /\ \A c \in Communities :
         Cardinality(Members(c)) = 3 /\ c_info[c].size = 3
    /\ DLess(Num(0, 1), Modularity(ExactExx, ExactA2x))
    /\ DLess(Modularity(total_edge_wt_twice,
                        total_edge_wt_twice * total_edge_wt_twice),
             Modularity(ExactExx, ExactA2x))

\* the engine has left its loop on the two triangles, its sums complete
TwoTrianglesConverged ==
  /\ Cardinality(Graph) = 6 /\ phase = "exit"
  /\ NoLostUpdate /\ DLess(Num(0, 1), curr_mod)

(* ------------------- the engine on a weighted graph -------------------- *)
\* a graph of six vertices; <<n, d, w>> is the edge n - d of weight w
WeightedEdges ==
  {<<0, 2, 2>>, <<0, 3, 2>>, <<1, 2, 1>>, <<1, 3, 2>>, <<1, 5, 3>>,
   <<2, 4, 2>>, <<4, 5, 2>>}

MkWeighted ==
  [n \in Nodes |-> [d \in Nodes |->
     LET es == {e \in WeightedEdges : {e[1], e[2]} = {n, d}}
     IN  IF es = {} THEN 0 ELSE (CHOOSE e \in es : TRUE)[3]]]

\* a threshold above 1, which ends the loop after its second iteration
CoarseThreshold == Num(11, 10)

WeightedInit ==
  /\ nnodes = Cardinality(UNION {{e[1], e[2]} : e \in WeightedEdges})
  /\ wt = MkWeighted
  /\ EngineStart(CoarseThreshold) /\ DriverOff /\ VFOff /\ WLOff

SpecWeighted == WeightedInit /\ [][LouvainNext]_vars

\* C16 as stated: at the end of every iteration the modularity of the
\* partition is not below the modularity of the partition the iteration
\* began with, whatever the interleaving of the bodies.
ModularityNotDecreased ==
  AtBoundary => ~DLess(PartitionMod, start_mod)

(* ------------------- the engine, every iteration followed -------------- *)
MaxLiveN == 3        \* vertices of the graphs whose runs are followed to the end

\* a graph with an edge
LoopInit ==
  /\ LouvainInit
  /\ nnodes <= MaxLiveN
  /\ total_edge_wt_twice > 0

LoopNext ==
  \/ Iterate /\ UNCHANGED <<wlvars, obsvars, vfvars, drvvars>>
  \/ \E n \in Graph : BodyStart(n) /\ UNCHANGED <<wlvars, obsvars, vfvars, drvvars>>
  \/ \E n \in Graph : ReadAx(n) /\ UNCHANGED <<wlvars, obsvars, vfvars, drvvars>>
  \/ \E n \in Graph : ReadAy(n) /\ UNCHANGED <<wlvars, obsvars, vfvars, drvvars>>
  \/ \E n \in Graph : ReadSize(n) /\ UNCHANGED <<wlvars, obsvars, vfvars, drvvars>>
  \/ \E n \in Graph : ReadSizeSc(n) /\ UNCHANGED <<wlvars, obsvars, vfvars, drvvars>>
  \/ \E n \in Graph : AddDegreeWt(n) /\ UNCHANGED <<wlvars, obsvars, vfvars, drvvars>>
  \/ \E n \in Graph : AddSize(n) /\ UNCHANGED <<wlvars, obsvars, vfvars, drvvars>>
  \/ \E n \in Graph : SubDegreeWt(n) /\ UNCHANGED <<wlvars, obsvars, vfvars, drvvars>>
  \/ \E n \in Graph : SubSize(n) /\ UNCHANGED <<wlvars, obsvars, vfvars, drvvars>>
  \/ EndIteration /\ UNCHANGED <<wlvars, obsvars, vfvars, drvvars>>

\* the thread of the loop and the threads of the for_each keep running
SpecLoop == LoopInit /\ [][LoopNext]_vars /\ WF_vars(LoopNext)

\* C17: on a graph of positive total edge weight, with a threshold above 0,
\* the while loop is left through the test of line 397 after finitely many
\* iterations.
LoopExits == <>(phase = "exit")

\* the loop has gone through more than MaxIter iterations and then exited
ExitedLate ==
  /\ phase = "exit" /\ num_iter = MaxIter
  /\ total_edge_wt_twice > 0
  /\ DLess(Num(0, 1), prev_mod)

\* C21: no subtraction of lines 339-340 takes a community record below 0:
\* when the body of v is about to subtract from c_info[x], x the community v
\* leaves, c_info[x].degree_wt >= degree_wt(v) and c_info[x].size >= 1,
\* whatever other bodies are doing, and no field of c_info is ever negative
\* (a negative value stands for a wrapped 64-bit one).
NoUnderflow ==
  /\ \A v \in Graph :
       /\ bpc[v] = "sub_degree_wt" =>
            c_info[curr_comm_ass[v]].degree_wt >= degree_wt[v]
       /\ bpc[v] = "sub_size" => c_info[curr_comm_ass[v]].size >= 1
  /\ \A c \in Nodes : c_info[c].size >= 0 /\ c_info[c].degree_wt >= 0

\* two vertices are leaving the same community at the same time, both
\* between their additions and their subtractions
TwoLeavingTogether ==
  \E v, u \in Graph :
    /\ v # u /\ curr_comm_ass[v] = curr_comm_ass[u]
    /\ bpc[v] = "sub_degree_wt" /\ bpc[u] = "sub_degree_wt"

\* C22: a call of maxModularity that read size 1 for the best community y
\* and for the vertex's own community x, with y > x, returned x; and no
\* vertex starts the migration of lines 337-340 from a community x into a
\* community y > x while c_info records size 1 for both, so two adjacent
\* singletons do not move into each other's community.
SingletonsDoNotSwap ==
  /\ (mmcall # MMNone /\ mmcall.size1 = 1 /\ mmcall.size2 = 1
        /\ mmcall.best > mmcall.sc) => mmcall.res = mmcall.sc
  /\ \A v \in Graph :
       bpc[v] = "add_degree_wt" =>
         ~(/\ local_target[v] > curr_comm_ass[v]
           /\ c_info[curr_comm_ass[v]].size = 1
           /\ c_info[local_target[v]].size = 1)

\* a singleton vertex stayed where it was although a singleton community of
\* larger id had the best, positive gain
SingletonGuardApplied ==
  /\ mmcall # MMNone
  /\ mmcall.size1 = 1 /\ mmcall.size2 = 1
  /\ mmcall.best > mmcall.sc /\ mmcall.res = mmcall.sc
  /\ mmcall.gain[mmcall.best] > 0

\* the chunks linked on the stack of level s
OnStack(s) == {StackChain(s)[i] : i \in 1 .. Len(StackChain(s))}

\* the step returns from the ChunkedAdaptor::pop of worker w that went to the
\* worklist (lines 284-289)
PopReturns(w) == op[w] = "pop" /\ pc[w] # "idle" /\ pc'[w] = "idle"

\* the step hands an item to its caller
GivesItem == \E x \in Items : popcount'[x] = popcount[x] + 1

\* C23: every chunk linked on a stack holds at least one item, a pop that
\* got a chunk from the worklist returns (true, item), and a pop returns
\* (false, _) only when the worklist gave it no chunk.
FetchedChunkGivesItem ==
  /\ [](\A s \in Levels : \A c \in OnStack(s) : Len(items[c]) >= 1)
  /\ [][\A w \in Workers :
          PopReturns(w) =>
            /\ cur'[w] # NULL => GivesItem
            /\ ~GivesItem => cur'[w] = NULL]_vars

\* a pop has fetched a chunk that another worker published with a single
\* item, and has returned that item: the chunk is now its empty current chunk
OneItemChunkFetched ==
  \E w \in Workers :
    /\ pc[w] = "idle" /\ cur[w] # NULL /\ cur[w] \in live
    /\ owner[cur[w]] # w
    /\ items[cur[w]] = <<>>
    /\ \E x \in Items : popcount[x] = 1

(* ------------ runMultiPhaseLouvainAlgorithm (lines 411-441) ------------ *)
MaxRunN == 3         \* vertices of the graphs the driver is followed on

\* min_graph_size: a small one, and the 100 that main passes
MinGraphSizes == {2, 100}

\* line 431: the test that lets the engine run
\* (variant: a graph of exactly min_graph_size vertices runs it too)
RunsEngineFrom(size, min) == size >= min
RunsEngine(size, min) == size > min

\* main, lines 476-480: every vertex's curr_comm_ass is INF_VAL
Unassigned == [n \in Nodes |-> IF n \in Graph THEN INF_VAL ELSE 0]

\* main has called runMultiPhaseLouvainAlgorithm, which is at its while loop
\* (lines 413-425)
RunInit ==
  /\ GraphInit /\ nnodes <= MaxRunN
  /\ EngineNotRunning(Unassigned)
  /\ dpc = "phase"
  /\ min_graph_size \in MinGraphSizes
  /\ phases_run = 0
  /\ engine_calls = 0
  /\ run_prev_mod = Num(-1, 1)
  /\ run_curr_mod = Num(-1, 1)
  /\ VFOff /\ WLOff

\* lines 240-273, called with lower and threshold
EngineCall(lower, threshold) ==
  /\ curr_comm_ass' = OwnCommunity
  /\ degree_wt' = VertexWeights
  /\ c_info' = FreshInfo
  /\ total_edge_wt_twice' = TwiceTotal
  /\ threshold_mod' = threshold
  /\ prev_mod' = lower
  /\ phase' = "start"
  /\ UNCHANGED <<curr_mod, num_iter, retval, e_xx, a2_x, start_mod, bodyvars,
                 mmcall>>

\* lines 426-432: a turn of the while loop begins
PhaseStart ==
  /\ dpc = "phase"
  /\ phases_run' = phases_run + 1
  /\ run_prev_mod' = run_curr_mod
  /\ IF RunsEngine(nnodes, min_graph_size)
       THEN /\ \E threshold \in Thresholds :
                 EngineCall(run_curr_mod, threshold)
            /\ engine_calls' = engine_calls + 1
            /\ dpc' = "engine"
       ELSE /\ dpc' = "break"
            /\ UNCHANGED <<enginevars, bodyvars, mmcall, engine_calls>>
  /\ UNCHANGED <<graphvars, min_graph_size, run_curr_mod>>

\* line 432: the engine has returned
EngineReturn ==
  /\ dpc = "engine" /\ phase = "exit"
  /\ run_curr_mod' = retval
  /\ dpc' = "break"
  /\ UNCHANGED <<graphvars, enginevars, bodyvars, mmcall, min_graph_size,
                 phases_run, engine_calls, run_prev_mod>>

\* lines 436-441: break, and the driver returns
PhaseBreak ==
  /\ dpc = "break"
  /\ dpc' = "returned"
  /\ UNCHANGED <<graphvars, enginevars, bodyvars, mmcall, min_graph_size,
                 phases_run, engine_calls, run_prev_mod, run_curr_mod>>

RunNext ==
  \/ PhaseStart /\ UNCHANGED <<wlvars, obsvars, vfvars>>
  \/ EngineReturn /\ UNCHANGED <<wlvars, obsvars, vfvars>>
  \/ PhaseBreak /\ UNCHANGED <<wlvars, obsvars, vfvars>>
  \/ Iterate /\ UNCHANGED <<wlvars, obsvars, vfvars, drvvars>>
  \/ \E n \in Graph : BodyStart(n) /\ UNCHANGED <<wlvars, obsvars, vfvars, drvvars>>
  \/ \E n \in Graph : ReadAx(n) /\ UNCHANGED <<wlvars, obsvars, vfvars, drvvars>>
  \/ \E n \in Graph : ReadAy(n) /\ UNCHANGED <<wlvars, obsvars, vfvars, drvvars>>
  \/ \E n \in Graph : ReadSize(n) /\ UNCHANGED <<wlvars, obsvars, vfvars, drvvars>>
  \/ \E n \in Graph : ReadSizeSc(n) /\ UNCHANGED <<wlvars, obsvars, vfvars, drvvars>>
  \/ \E n \in Graph : AddDegreeWt(n) /\ UNCHANGED <<wlvars, obsvars, vfvars, drvvars>>
  \/ \E n \in Graph : AddSize(n) /\ UNCHANGED <<wlvars, obsvars, vfvars, drvvars>>
  \/ \E n \in Graph : SubDegreeWt(n) /\ UNCHANGED <<wlvars, obsvars, vfvars, drvvars>>
  \/ \E n \in Graph : SubSize(n) /\ UNCHANGED <<wlvars, obsvars, vfvars, drvvars>>
  \/ EndIteration /\ UNCHANGED <<wlvars, obsvars, vfvars, drvvars>>

SpecRun == RunInit /\ [][RunNext]_vars

\* C24: the driver begins one turn of its loop and no second one, calls the
\* engine at most once and only on a graph of more than min_graph_size
\* vertices; on a graph of at most min_graph_size vertices the engine never
\* runs and every vertex keeps curr_comm_ass = INF_VAL.
OnePhaseOneCall ==
  /\ phases_run <= 1 /\ engine_calls <= 1
  /\ dpc \in {"engine", "break", "returned"} => phases_run = 1
  /\ engine_calls = 1 => nnodes > min_graph_size
  /\ nnodes <= min_graph_size =>
       /\ engine_calls = 0 /\ phase = "off"
       /\ \A n \in Graph : curr_comm_ass[n] = INF_VAL

\* the driver has returned from a graph of exactly min_graph_size vertices,
\* joined by an edge, without running the engine
SmallGraphSkipped ==
  /\ dpc = "returned"
  /\ nnodes = min_graph_size
  /\ wt[0][1] > 0
  /\ run_curr_mod = Num(-1, 1)

\* C25: when the engine leaves its loop it returns prev_mod, the modularity
\* that last passed the test of line 397: the curr_mod of the iteration
\* before the one that left the loop, and lower when the first iteration
\* leaves it; the curr_mod of the last iteration is not what is returned.
ReturnsLastAccepted ==
  /\ [](phase = "exit" => retval = prev_mod)
  /\ [][(phase = "loop" /\ phase' = "exit") =>
          /\ retval' = (IF num_iter = 1 THEN Lower ELSE curr_mod)
          /\ Converged(curr_mod', retval')]_vars

\* the engine has left its loop after more than one iteration and the value
\* it returns is above the modularity of its last iteration
ReturnedEarlierModularity ==
  /\ phase = "exit" /\ num_iter >= 2
  /\ DLess(curr_mod, retval)
  /\ DLess(Lower, retval)

====
